---- MODULE Spec2Model ----
(***************************************************************************)
(* Model of the BLEBonders backend: the similarity / enrichment request    *)
(* handler (API Similarity Matching) and the profile ingestion pipeline    *)
(* (Database Manager), both working against one object store.              *)
(*                                                                         *)
(* Python values are tagged records [t |-> ...]; text that the code        *)
(* inspects character by character is a sequence of one-character strings; *)
(* fixed text (storage keys, messages) is a TLA+ string.                   *)
(***************************************************************************)
EXTENDS Integers, Sequences, FiniteSets, TLC

VARIABLES
    store,      \* the bucket: storage key -> stored object
    event,      \* the last similarity request event
    services,   \* what the services it calls did while it was served
    resp,       \* what handler() gave back for it
    calls,      \* external calls made while serving it, in order
    ingested,   \* the ingestion runs that have ended, in order
    resolved    \* the last transcript resolution: its arguments and outcome

vars == <<store, event, services, resp, calls, ingested, resolved>>

(***************************************************************************)
(* Bounds                                                                  *)
(***************************************************************************)
MaxNameLen == 2     \* longest raw identifier a request may carry
MaxDim == 2         \* longest stored vector
MaxAbs == 1         \* largest absolute value of a vector entry
MaxTextLen == 3     \* longest enumerated answer of the text-generation service

(***************************************************************************)
(* Python values                                                           *)
(***************************************************************************)
None == [t |-> "null"]
PyStr(s) == [t |-> "str", s |-> s]
PyNum(n) == [t |-> "num", n |-> n]
PyList(items) == [t |-> "list", items |-> items]
PyDict(fields) == [t |-> "obj", fields |-> fields]

\* bool(v), as Python evaluates it for (x or y), (not x), (if x and y)
Truthy(v) ==
    CASE v.t = "null" -> FALSE
      [] v.t = "num" -> v.n # 0
      [] v.t = "str" -> v.s # <<>>
      [] v.t = "list" -> v.items # <<>>
      [] v.t = "obj" -> DOMAIN v.fields # {}

\* type(v).__name__, as it appears in AttributeError messages
TypeName(v) ==
    CASE v.t = "null" -> "NoneType"
      [] v.t = "num" -> "int"
      [] v.t = "str" -> "str"
      [] v.t = "list" -> "list"
      [] v.t = "obj" -> "dict"

\* dict.get(key): the value, or None when the key is not there
DictGet(d, key) == IF key \in DOMAIN d.fields THEN d.fields[key] ELSE None

\* the text of a character sequence
RECURSIVE Str(_)
Str(s) == IF s = <<>> THEN "" ELSE Head(s) \o Str(Tail(s))

(***************************************************************************)
(* Exceptions and results of a step: a step either yields a value or       *)
(* raises; either way it reports the external calls made so far.           *)
(***************************************************************************)
Exc(type, msg) == [type |-> type, msg |-> msg]
NoExc == Exc("", "")
Ok(v, c) == [ok |-> TRUE, val |-> v, exc |-> NoExc, calls |-> c]
Raise(e, c) == [ok |-> FALSE, val |-> None, exc |-> e, calls |-> c]
Call(op, arg) == [op |-> op, arg |-> arg]

(***************************************************************************)
(* str methods                                                             *)
(***************************************************************************)
IsSpace(c) == c \in {" ", "\n", "\t"}

RECURSIVE lstrip(_)
lstrip(s) == IF s # <<>> /\ IsSpace(Head(s)) THEN lstrip(Tail(s)) ELSE s

RECURSIVE rstrip(_)
rstrip(s) ==
    IF s # <<>> /\ IsSpace(s[Len(s)]) THEN rstrip(SubSeq(s, 1, Len(s) - 1)) ELSE s

strip(s) == rstrip(lstrip(s))

LowerChar(c) ==
    CASE c = "A" -> "a"
      [] c = "B" -> "b"
      [] OTHER -> c

lower(s) == [i \in 1..Len(s) |-> LowerChar(s[i])]

(***************************************************************************)
(* The object store                                                        *)
(***************************************************************************)
Absent == [kind |-> "absent", val |-> None]
JsonObject(v) == [kind |-> "json", val |-> v]       \* body parses to v
TextObject(s) == [kind |-> "text", val |-> PyStr(s)] \* body is not JSON

Lookup(S, key) == IF key \in DOMAIN S THEN S[key] ELSE Absent

VectorKey(profile_name) == "profiles/" \o Str(profile_name) \o "/vector.json"
ProfileKey(profile_name) == "profiles/" \o Str(profile_name) \o "/profile.json"

(***************************************************************************)
(* The text-generation service (bedrock.converse): a call either raises or *)
(* answers with a list of text blocks.                                     *)
(***************************************************************************)
GenOk(blocks) == [ok |-> TRUE, exc |-> NoExc, blocks |-> blocks]
GenFail == [ok |-> FALSE, exc |-> Exc("ClientError", "ThrottlingException"), blocks |-> <<>>]

\* text = ""; for b in blocks: text += b["text"]
RECURSIVE JoinBlocks(_)
JoinBlocks(blocks) ==
    IF blocks = <<>> THEN <<>> ELSE Head(blocks) \o JoinBlocks(Tail(blocks))

StartsWith(s, p) == Len(s) >= Len(p) /\ SubSeq(s, 1, Len(p)) = p
EndsWith(s, p) == Len(s) >= Len(p) /\ SubSeq(s, Len(s) - Len(p) + 1, Len(s)) = p

\* the characters backquote, opening and closing curly double quote are written
\* "BQ", "LDQ" and "RDQ"; each counts as one character
Fence == <<"BQ", "BQ", "BQ">>
OpenMarks == {Fence, <<"LDQ">>, <<"\"">>, <<"'">>}
CloseMarks == {Fence, <<"RDQ">>, <<"\"">>, <<"'">>}
QuoteChars == {"BQ", "LDQ", "RDQ", "'", "\""}

RECURSIVE lstripChars(_, _)
lstripChars(s, cs) == IF s # <<>> /\ Head(s) \in cs THEN lstripChars(Tail(s), cs) ELSE s

RECURSIVE rstripChars(_, _)
rstripChars(s, cs) ==
    IF s # <<>> /\ s[Len(s)] \in cs THEN rstripChars(SubSeq(s, 1, Len(s) - 1), cs) ELSE s

stripChars(s, cs) == rstripChars(lstripChars(s, cs), cs)

\* the first whitespace-delimited word of s (s has no leading whitespace)
RECURSIVE FirstWord(_)
FirstWord(s) ==
    IF s = <<>> \/ IsSpace(Head(s)) THEN <<>> ELSE <<Head(s)>> \o FirstWord(Tail(s))

\* " ".join(s.split()): JoinFrom(t, w) joins the words of t, whose first is w
RECURSIVE JoinWords(_), JoinFrom(_, _)
JoinWords(s) == IF lstrip(s) = <<>> THEN <<>> ELSE JoinFrom(lstrip(s), FirstWord(lstrip(s)))
JoinFrom(t, w) ==
    IF lstrip(SubSeq(t, Len(w) + 1, Len(t))) = <<>> THEN w
    ELSE w \o <<" ">> \o JoinWords(SubSeq(t, Len(w) + 1, Len(t)))

SummaryMaxLen == 30

\* the quote / fence removal of _clean_summary
Unquote(s) ==
    IF (\E p \in OpenMarks : StartsWith(s, p)) /\ (\E q \in CloseMarks : EndsWith(s, q))
    THEN stripChars(s, QuoteChars)
    ELSE s

\* no cap
Truncate_never(s, max_len) == s
\* the hard cap of _clean_summary
Truncate(s, max_len) == IF Len(s) > max_len THEN rstrip(SubSeq(s, 1, max_len)) ELSE s

_clean_summary(s, max_len) == Truncate(JoinWords(Unquote(strip(s))), max_len)

\* gen is what the converse call does; c the calls made before it
build_sentence_from_profile(profile, gen, c) ==
    IF ~gen.ok THEN Raise(gen.exc, Append(c, Call("converse", "summary")))
    ELSE Ok(PyStr(_clean_summary(JoinBlocks(gen.blocks), SummaryMaxLen)),
            Append(c, Call("converse", "summary")))

\* text.split("\n")
RECURSIVE SplitLines(_)
SplitLines(s) ==
    IF \A i \in 1..Len(s) : s[i] # "\n" THEN <<s>>
    ELSE LET k == CHOOSE i \in 1..Len(s) : s[i] = "\n" /\ \A j \in 1..(i - 1) : s[j] # "\n"
         IN  <<SubSeq(s, 1, k - 1)>> \o SplitLines(SubSeq(s, k + 1, Len(s)))

\* [line.strip() for line in ... if line.strip()]
RECURSIVE StrippedNonEmpty(_)
StrippedNonEmpty(ls) ==
    IF ls = <<>> THEN <<>>
    ELSE (IF strip(Head(ls)) # <<>> THEN <<strip(Head(ls))>> ELSE <<>>)
         \o StrippedNonEmpty(Tail(ls))

IsDigit(c) == c \in {"0", "1", "2", "3", "4", "5", "6", "7", "8", "9"}

LooksLikeQuestion(l) == IsDigit(l[1]) \/ StartsWith(l, <<"-">>) \/ (\E i \in 1..Len(l) : l[i] = "?")

\* [l for l in lines if ...]
RECURSIVE OnlyQuestions(_)
OnlyQuestions(ls) ==
    IF ls = <<>> THEN <<>>
    ELSE (IF LooksLikeQuestion(Head(ls)) THEN <<Head(ls)>> ELSE <<>>)
         \o OnlyQuestions(Tail(ls))

\* xs[:n]
Prefix(xs, n) == SubSeq(xs, 1, IF Len(xs) < n THEN Len(xs) ELSE n)

\* the fallback and the final cut, given the lines and the questions found
TwoQuestions(lines, found) == Prefix(IF Len(found) < 2 THEN Prefix(lines, 2) ELSE found, 2)

\* everything after the text is extracted
QuestionsIn(lines) == TwoQuestions(lines, OnlyQuestions(lines))

build_icebreakers_between_profiles(profileA, profileB, gen, c) ==
    IF ~gen.ok THEN Raise(gen.exc, Append(c, Call("converse", "icebreakers")))
    ELSE Ok(PyList(QuestionsIn(StrippedNonEmpty(SplitLines(JoinBlocks(gen.blocks))))),
            Append(c, Call("converse", "icebreakers")))

(***************************************************************************)
(* app_similarity.py                                                       *)
(*                                                                         *)
(* env is what the services do during one request:                         *)
(*   env.headError  the keys for which head_object fails with a backend    *)
(*                  error                                                  *)
(*   env.genA, env.genB, env.genIce  what the converse call for the        *)
(*                  summary of A, of B and for the icebreakers does        *)
(* A step that follows a call takes the call's result as a parameter.      *)
(***************************************************************************)
_json(obj, code) ==
    [statusCode |-> code,
     headers |-> [ContentType |-> "application/json", AccessControlAllowOrigin |-> "*"],
     body |-> obj]

\* the existence check never reports a key missing
_head_exists_always(S, env, key) == TRUE

\* both except clauses of _head_exists answer False
_head_exists(S, env, key) ==
    IF key \in env.headError THEN FALSE ELSE Lookup(S, key).kind # "absent"

\* s3.get_object(...)["Body"].read().decode("utf-8"), then json.loads
GetAndParse(obj, c) ==
    CASE obj.kind = "absent" ->
            Raise(Exc("NoSuchKey", "An error occurred (NoSuchKey) when calling the GetObject operation"), c)
      [] obj.kind = "json" -> Ok(obj.val, c)
      [] OTHER -> Raise(Exc("JSONDecodeError", "Expecting value: line 1 column 1 (char 0)"), c)

_load_s3_json(S, env, key, c) ==
    IF ~_head_exists(S, env, key)
    THEN Raise(Exc("FileNotFoundError", key), Append(c, Call("head_object", key)))
    ELSE GetAndParse(Lookup(S, key), c \o <<Call("head_object", key), Call("get_object", key)>>)

_load_vector(S, env, profile_name, c) == _load_s3_json(S, env, VectorKey(profile_name), c)

_load_profile(S, env, profile_name, c) == _load_s3_json(S, env, ProfileKey(profile_name), c)

\* (name or "")
OrEmpty(name) == IF Truthy(name) THEN name ELSE PyStr(<<>>)

_sanitize(name, c) ==
    IF OrEmpty(name).t = "str" THEN Ok(PyStr(lower(strip(OrEmpty(name).s))), c)
    ELSE Raise(Exc("AttributeError", "'" \o TypeName(name) \o "' object has no attribute 'strip'"), c)

\* base64.b64decode(body).decode("utf-8")
b64decode_utf8(body, c) ==
    CASE body.enc = "b64" -> Ok(body.text, c)
      [] body.enc = "badpad" -> Raise(Exc("binascii.Error", "Incorrect padding"), c)
      [] body.enc = "nonutf8" ->
            Raise(Exc("UnicodeDecodeError", "'utf-8' codec can't decode byte 0xff in position 0: invalid start byte"), c)

\* sum(px * py for px, py in zip(x, y))
RECURSIVE Dot(_, _)
Dot(x, y) == IF x = <<>> \/ y = <<>> THEN 0 ELSE Head(x) * Head(y) + Dot(Tail(x), Tail(y))

\* A float result is kept exactly: num / sqrt(den2); divided tells whether it
\* came out of the division or is the literal 0.0.
Float(num, den2, divided) == [num |-> num, den2 |-> den2, divided |-> divided]

\* the division is made even when a norm is zero
_cosine_unguarded(x, y) == Float(Dot(x, y), Dot(x, x) * Dot(y, y), TRUE)

\* nx = sqrt(Dot(x, x)), and nx = 0 exactly when Dot(x, x) = 0
_cosine(x, y) ==
    IF Dot(x, x) = 0 \/ Dot(y, y) = 0 THEN Float(0, 1, FALSE)
    ELSE Float(Dot(x, y), Dot(x, x) * Dot(y, y), TRUE)

\* step 6 for one profile, p being what _load_profile gave: only a
\* FileNotFoundError is caught, around the load and the sentence
Summarised(p, sn) == IF ~sn.ok THEN sn ELSE Ok([prof |-> p.val, sentence |-> sn.val], sn.calls)

LoadAndSummarise(p, gen) ==
    IF p.ok THEN Summarised(p, build_sentence_from_profile(p.val, gen, p.calls))
    ELSE IF p.exc.type = "FileNotFoundError"
         THEN Ok([prof |-> None, sentence |-> None], p.calls)
         ELSE p

\* step 7: any exception of the icebreaker call is caught
CaughtIcebreakers(ib) == IF ib.ok THEN ib ELSE Ok(None, ib.calls)

Icebreakers(prof_a, prof_b, gen, c) ==
    IF Truthy(prof_a) /\ Truthy(prof_b)
    THEN CaughtIcebreakers(build_icebreakers_between_profiles(prof_a, prof_b, gen, c))
    ELSE Ok(None, c)

\* the success response; in the dict literal the entry of b is written last
Success(a, b, score, ea, eb, ib) ==
    Ok(_json([ok |-> TRUE,
              similarity |-> score,
              summaries |-> [k \in {Str(a), Str(b)} |->
                                IF k = Str(b) THEN eb.sentence ELSE ea.sentence],
              icebreakers |-> ib.val], 200), ib.calls)

\* steps 6 (for b) and 7, ea and eb being what step 6 gave for a and for b
EnrichB(env, a, b, score, ea, eb) ==
    IF ~eb.ok THEN eb
    ELSE Success(a, b, score, ea, eb.val, Icebreakers(ea.prof, eb.val.prof, env.genIce, eb.calls))

EnrichA(S, env, a, b, score, ea) ==
    IF ~ea.ok THEN ea
    ELSE EnrichB(env, a, b, score, ea.val,
                 LoadAndSummarise(_load_profile(S, env, b, ea.calls), env.genB))

\* steps 5 to 7
Respond(S, env, a, b, v1, v2, c) ==
    EnrichA(S, env, a, b, _cosine(v1.items, v2.items),
            LoadAndSummarise(_load_profile(S, env, a, c), env.genA))

\* the except clause of step 4
VectorNotFound(l) ==
    IF l.exc.type = "FileNotFoundError"
    THEN Ok(_json([error |-> "Vector file not found: " \o l.exc.msg], 404), l.calls)
    ELSE l

\* step 4, l1 and l2 being what _load_vector gave for a and for b
SecondVector(S, env, a, b, v1, l2) ==
    IF ~l2.ok THEN VectorNotFound(l2) ELSE Respond(S, env, a, b, v1, l2.val, l2.calls)

FirstVector(S, env, a, b, l1) ==
    IF ~l1.ok THEN VectorNotFound(l1)
    ELSE SecondVector(S, env, a, b, l1.val, _load_vector(S, env, b, l1.calls))

\* step 3, ra and rb being what _sanitize gave for profileA and profileB
Inputs(S, env, ra, rb) ==
    IF ~ra.ok THEN ra
    ELSE IF ~rb.ok THEN rb
    ELSE IF ra.val.s = <<>> \/ rb.val.s = <<>>
         THEN Ok(_json([error |-> "profileA and profileB are required"], 400), <<>>)
         ELSE FirstVector(S, env, ra.val.s, rb.val.s, _load_vector(S, env, ra.val.s, <<>>))

\* steps 2 and 3, dec being the decoded body
Parse(S, env, dec) ==
    IF ~dec.ok THEN dec
    ELSE IF dec.val.kind # "json" THEN Ok(_json([error |-> "Invalid JSON body"], 400), <<>>)
    ELSE IF dec.val.val.t # "obj"
         THEN Raise(Exc("AttributeError",
                        "'" \o TypeName(dec.val.val) \o "' object has no attribute 'get'"), <<>>)
         ELSE Inputs(S, env, _sanitize(DictGet(dec.val.val, "profileA"), <<>>),
                     _sanitize(DictGet(dec.val.val, "profileB"), <<>>))

\* the body of the outer try of handler
handler_try(S, env, ev) ==
    Parse(S, env, IF ev.isBase64Encoded THEN b64decode_utf8(ev.body, <<>>)
                  ELSE Ok(ev.body.text, <<>>))

\* the outer except
Unhandled(r) == IF r.ok THEN r ELSE Ok(_json([error |-> r.exc.msg], 500), r.calls)

\* without the outer except
handler_uncaught(S, env, ev) == handler_try(S, env, ev)

handler(S, env, ev) == Unhandled(handler_try(S, env, ev))

(***************************************************************************)
(* Database Manager: the ingestion pipeline (lambda_function.py, vpm.py,   *)
(* bedrock_profile.py, embeddings.py).  A storage key the pipeline takes   *)
(* apart is a sequence of characters.                                      *)
(***************************************************************************)
Put(S, key, obj) == [k \in DOMAIN S \cup {key} |-> IF k = key THEN obj ELSE S[k]]

\* urllib.parse.unquote_plus: "+" is a space (the keys have no %XX escapes)
unquote_plus(k) == [i \in 1..Len(k) |-> IF k[i] = "+" THEN " " ELSE k[i]]

\* os.path.basename: what follows the last "/"
RECURSIVE basename(_)
basename(k) == IF \E i \in 1..Len(k) : k[i] = "/" THEN basename(Tail(k)) ELSE k

\* os.path.splitext(b)[0]: b up to its last ".", unless only dots precede it
LastDot(b) == CHOOSE i \in 1..Len(b) : b[i] = "." /\ \A j \in (i + 1)..Len(b) : b[j] # "."
splitext_root(b) ==
    IF (\E i \in 1..Len(b) : b[i] = ".") /\ (\E j \in 1..(LastDot(b) - 1) : b[j] # ".")
    THEN SubSeq(b, 1, LastDot(b) - 1)
    ELSE b

_base_name(key) == splitext_root(basename(key))

TxtKey(base) == "transcripts/" \o Str(base) \o ".txt"
JsonKey(base) == "transcripts/" \o Str(base) \o ".json"

\* wait_for_s3_key: True once head_object finds the key, False when it
\* stays 404 until the timeout; any other ClientError is raised again.
\* Nothing else writes to the bucket while one run waits.
wait_for_s3_key(S, ienv, key, c) ==
    IF key \in ienv.headError
    THEN Raise(Exc("ClientError", "InternalError"), Append(c, Call("head_object", key)))
    ELSE Ok(Lookup(S, key).kind # "absent", Append(c, Call("head_object", key)))

\* vpm.py: the transcription job as get_transcription_job reports it at its
\* i-th poll, and the loop for _ in range(30)
MaxPolls == 30
StatusAt(job, i) == IF i >= job.at THEN job.final ELSE "IN_PROGRESS"

RECURSIVE Poll(_, _)
Poll(job, i) ==
    IF StatusAt(job, i) \in {"COMPLETED", "FAILED"} \/ i = MaxPolls
    THEN [status |-> StatusAt(job, i), polls |-> i]
    ELSE Poll(job, i + 1)

\* the dict run_vpm returns; a key left out is "" (str) or None (transcript)
VpmResult(ok, status, tkey) ==
    [ok |-> ok, status |-> status, transcript |-> None, transcriptKey |-> tkey]

\* step 4 left out: the text is returned as saved and never put
Transcribed_nocopy(S, ienv, key, p) ==
    IF p.status # "COMPLETED"
    THEN [res |-> VpmResult(FALSE, p.status, ""), store |-> S,
          calls |-> <<Call("get_transcription_job", p.polls)>>]
    ELSE IF ~ienv.output.present
    THEN [res |-> VpmResult(FALSE, "", ""), store |-> S,
          calls |-> <<Call("get_transcription_job", p.polls),
                      Call("list_objects_v2", "transcripts/job/")>>]
    ELSE [res |-> VpmResult(TRUE, "", TxtKey(_base_name(key))), store |-> S,
          calls |-> <<Call("get_transcription_job", p.polls),
                      Call("list_objects_v2", "transcripts/job/"),
                      Call("get_object", "transcripts/job/out.json")>>]

\* the call get_transcription_job stands for all the polls, its arg their number
Transcribed(S, ienv, key, p) ==
    IF p.status # "COMPLETED"
    THEN [res |-> VpmResult(FALSE, p.status, ""), store |-> S,
          calls |-> <<Call("get_transcription_job", p.polls)>>]
    ELSE IF ~ienv.output.present
    THEN [res |-> VpmResult(FALSE, "", ""), store |-> S,
          calls |-> <<Call("get_transcription_job", p.polls),
                      Call("list_objects_v2", "transcripts/job/")>>]
    ELSE [res |-> VpmResult(TRUE, "", TxtKey(_base_name(key))),
          store |-> Put(S, TxtKey(_base_name(key)), TextObject(ienv.output.text)),
          calls |-> <<Call("get_transcription_job", p.polls),
                      Call("list_objects_v2", "transcripts/job/"),
                      Call("get_object", "transcripts/job/out.json"),
                      Call("put_object", TxtKey(_base_name(key)))>>]

run_vpm(S, ienv, key) == Transcribed(S, ienv, key, Poll(ienv.job, 1))

\* lambda_function.py: _load_transcript_text
\* the body of a stored object as text (a JSON scalar as json.dumps writes it)
decode(obj) ==
    CASE obj.kind = "text" -> obj.val.s
      [] obj.kind = "json" /\ obj.val.t = "null" -> <<"n", "u", "l", "l">>
      [] obj.kind = "json" /\ obj.val.t = "num" -> <<ToString(obj.val.n)>>
      [] obj.kind = "json" /\ obj.val.t = "str" -> <<"\"">> \o obj.val.s \o <<"\"">>

\* whether the body starts with "{" or "["
Bracketed(obj) ==
    IF obj.kind = "json" /\ obj.val.t \in {"obj", "list"}
    THEN TRUE
    ELSE strip(decode(obj)) # <<>> /\ Head(strip(decode(obj))) \in {"{", "["}

\* the direct transcript field is not looked at
TranscriptOf_nested(payload, c) ==
    IF payload.t = "obj" /\ "results" \in DOMAIN payload.fields
    THEN Ok(payload.fields["results"].fields["transcripts"].items[1].fields["transcript"], c)
    ELSE Raise(Exc("KeyError", "results"), c)
\* payload["transcript"], else payload["results"]["transcripts"][0]["transcript"]
TranscriptOf(payload, c) ==
    IF payload.t = "obj" /\ "transcript" \in DOMAIN payload.fields
    THEN Ok(payload.fields["transcript"], c)
    ELSE IF /\ payload.t = "obj"
            /\ "results" \in DOMAIN payload.fields
            /\ payload.fields["results"].t = "obj"
            /\ "transcripts" \in DOMAIN payload.fields["results"].fields
            /\ payload.fields["results"].fields["transcripts"].t = "list"
            /\ payload.fields["results"].fields["transcripts"].items # <<>>
            /\ payload.fields["results"].fields["transcripts"].items[1].t = "obj"
            /\ "transcript" \in DOMAIN payload.fields["results"].fields["transcripts"].items[1].fields
    THEN Ok(payload.fields["results"].fields["transcripts"].items[1].fields["transcript"], c)
    ELSE Raise(Exc(IF payload.t = "obj" THEN "KeyError" ELSE "TypeError", "transcript"), c)

\* lines 85-93: transcripts/<base>.txt, and on any exception transcripts/<base>.json
ReadFallback(S, base, c) ==
    IF Lookup(S, TxtKey(base)).kind # "absent"
    THEN Ok(PyStr(decode(Lookup(S, TxtKey(base)))), Append(c, Call("get_object", TxtKey(base))))
    ELSE IF Lookup(S, JsonKey(base)).kind = "absent"
    THEN Raise(Exc("ClientError", "NoSuchKey"),
               c \o <<Call("get_object", TxtKey(base)), Call("get_object", JsonKey(base))>>)
    ELSE IF Lookup(S, JsonKey(base)).kind = "text"
    THEN Raise(Exc("JSONDecodeError", "Expecting value"),
               c \o <<Call("get_object", TxtKey(base)), Call("get_object", JsonKey(base))>>)
    ELSE TranscriptOf(Lookup(S, JsonKey(base)).val,
                      c \o <<Call("get_object", TxtKey(base)), Call("get_object", JsonKey(base))>>)

\* lines 79-83: found = wait(txt) or wait(json)
FoundJson(S, base, w) ==
    IF ~w.ok THEN w
    ELSE IF ~w.val
    THEN Raise(Exc("RuntimeError", "Transcript not found in time: " \o TxtKey(base)
                                    \o " or " \o JsonKey(base)), w.calls)
    ELSE ReadFallback(S, base, w.calls)

FoundTxt(S, ienv, base, w) ==
    IF ~w.ok THEN w
    ELSE IF w.val THEN ReadFallback(S, base, w.calls)
    ELSE FoundJson(S, base, wait_for_s3_key(S, ienv, JsonKey(base), w.calls))

Fallback(S, ienv, base, c) ==
    FoundTxt(S, ienv, base, wait_for_s3_key(S, ienv, TxtKey(base), c))

\* lines 62-73: the object under transcriptKey
Passed(S, ienv, base, t) == IF t.ok THEN t ELSE Fallback(S, ienv, base, t.calls)

FromKey(S, ienv, base, tkey, w) ==
    IF ~w.ok THEN w
    ELSE IF Lookup(S, tkey).kind = "absent"
    THEN Raise(Exc("ClientError", "NoSuchKey"), Append(w.calls, Call("get_object", tkey)))
    ELSE IF ~Bracketed(Lookup(S, tkey)) /\ strip(decode(Lookup(S, tkey))) # <<>>
    THEN Ok(PyStr(strip(decode(Lookup(S, tkey)))), Append(w.calls, Call("get_object", tkey)))
    ELSE IF Lookup(S, tkey).kind = "text"
    THEN Fallback(S, ienv, base, Append(w.calls, Call("get_object", tkey)))
    ELSE Passed(S, ienv, base,
                TranscriptOf(Lookup(S, tkey).val, Append(w.calls, Call("get_object", tkey))))

\* the inline text is not looked at
_load_transcript_text_noinline(S, ienv, orig_key, vpm_result, c) ==
    IF vpm_result.transcriptKey # ""
    THEN FromKey(S, ienv, _base_name(orig_key), vpm_result.transcriptKey,
                 wait_for_s3_key(S, ienv, vpm_result.transcriptKey, c))
    ELSE Fallback(S, ienv, _base_name(orig_key), c)
_load_transcript_text(S, ienv, orig_key, vpm_result, c) ==
    IF vpm_result.transcript.t = "str" /\ strip(vpm_result.transcript.s) # <<>>
    THEN Ok(vpm_result.transcript, c)
    ELSE IF vpm_result.transcriptKey # ""
    THEN FromKey(S, ienv, _base_name(orig_key), vpm_result.transcriptKey,
                 wait_for_s3_key(S, ienv, vpm_result.transcriptKey, c))
    ELSE Fallback(S, ienv, _base_name(orig_key), c)

\* bedrock_profile.py: the answer's first text block is written as the
\* characters before a JSON document, the value of that document and the
\* characters after it; the characters are letters, blanks and braces, and a
\* document that is not an object holds no brace
NoDoc == [t |-> "none"]
ProfileText(pre, doc, post) == [pre |-> pre, doc |-> doc, post |-> post]

\* str.strip on such a text
StripText(text) ==
    IF text.doc = NoDoc
    THEN ProfileText(strip(text.pre \o text.post), NoDoc, <<>>)
    ELSE ProfileText(lstrip(text.pre), text.doc, rstrip(text.post))

\* json.loads: blanks around one document, or the braces of an empty object
json_loads(text, c) ==
    IF text.doc # NoDoc
    THEN IF strip(text.pre) = <<>> /\ strip(text.post) = <<>>
         THEN Ok(text.doc, c)
         ELSE Raise(Exc("JSONDecodeError", "Expecting value"), c)
    ELSE IF /\ Len(strip(text.pre \o text.post)) >= 2
            /\ Head(strip(text.pre \o text.post)) = "{"
            /\ strip(Tail(strip(text.pre \o text.post))) = <<"}">>
    THEN Ok(PyDict(<<>>), c)
    ELSE Raise(Exc("JSONDecodeError", "Expecting value"), c)

\* str.find and str.rfind of one character in a run of characters, 0 for none
FirstIn(s, ch) ==
    IF \E i \in 1..Len(s) : s[i] = ch
    THEN CHOOSE i \in 1..Len(s) : s[i] = ch /\ \A j \in 1..(i - 1) : s[j] # ch
    ELSE 0
LastIn(s, ch) ==
    IF \E i \in 1..Len(s) : s[i] = ch
    THEN CHOOSE i \in 1..Len(s) : s[i] = ch /\ \A j \in (i + 1)..Len(s) : s[j] # ch
    ELSE 0

\* text.find("{") and text.rfind("}"): the part of the text the brace is in
\* (1 before the document, 2 the document, 3 after it), 0 for no brace
OpenAt(text) ==
    IF FirstIn(text.pre, "{") > 0 THEN 1
    ELSE IF text.doc.t = "obj" THEN 2
    ELSE IF FirstIn(text.post, "{") > 0 THEN 3
    ELSE 0
CloseAt(text) ==
    IF LastIn(text.post, "}") > 0 THEN 3
    ELSE IF text.doc.t = "obj" THEN 2
    ELSE IF LastIn(text.pre, "}") > 0 THEN 1
    ELSE 0

\* text[start:end + 1]
Slice(text) ==
    ProfileText(
        IF OpenAt(text) = 1
        THEN SubSeq(text.pre, FirstIn(text.pre, "{"),
                    IF CloseAt(text) = 1 THEN LastIn(text.pre, "}") ELSE Len(text.pre))
        ELSE <<>>,
        IF OpenAt(text) <= 2 /\ CloseAt(text) >= 2 THEN text.doc ELSE NoDoc,
        IF CloseAt(text) = 3
        THEN SubSeq(text.post, IF OpenAt(text) = 3 THEN FirstIn(text.post, "{") ELSE 1,
                    LastIn(text.post, "}"))
        ELSE <<>>)

\* the except branch parsing nothing: the error of the strict parse stands
Parsed_strict(text, strict) == strict

\* the try of the strict parse and its except branch
Parsed(text, strict) ==
    IF strict.ok
    THEN strict
    ELSE IF OpenAt(text) > 0 /\ CloseAt(text) > 0
    THEN json_loads(Slice(text), strict.calls)
    ELSE strict

build_profile_from_transcript(transcript_text, ienv, c) ==
    IF ~ienv.genProfile.ok
    THEN Raise(ienv.genProfile.exc, Append(c, Call("converse", "profile")))
    ELSE IF ienv.genProfile.blocks = <<>>
    THEN Raise(Exc("RuntimeError", "Bedrock (Nova) response missing text content."),
               Append(c, Call("converse", "profile")))
    ELSE Parsed(StripText(ienv.genProfile.blocks[1]),
                json_loads(StripText(ienv.genProfile.blocks[1]), Append(c, Call("converse", "profile"))))

\* embeddings.py
RECURSIVE Join(_, _)
Join(xs, sep) ==
    IF xs = <<>> THEN ""
    ELSE IF Len(xs) = 1 THEN xs[1]
    ELSE xs[1] \o sep \o Join(Tail(xs), sep)

\* [s.strip() for s in profile.get(key, []) if s and str(s).strip()]
Kept(v) == v.t = "str" /\ strip(v.s) # <<>>
Stripped(xs) == [i \in 1..Len(xs) |-> Str(strip(xs[i].s))]
NotStr(v) == Truthy(v) /\ v.t # "str"
Listed(profile, key) ==
    IF key \notin DOMAIN profile.fields THEN Ok(<<>>, <<>>)
    ELSE CASE profile.fields[key].t \in {"null", "num"} ->
                Raise(Exc("TypeError", "'" \o TypeName(profile.fields[key])
                                        \o "' object is not iterable"), <<>>)
           [] profile.fields[key].t = "str" ->
                Ok(Stripped(SelectSeq([i \in 1..Len(profile.fields[key].s) |->
                                          PyStr(<<profile.fields[key].s[i]>>)], Kept)), <<>>)
           [] profile.fields[key].t = "list" ->
                IF \E i \in 1..Len(profile.fields[key].items) : NotStr(profile.fields[key].items[i])
                THEN Raise(Exc("AttributeError",
                               "'" \o TypeName(SelectSeq(profile.fields[key].items, NotStr)[1])
                                   \o "' object has no attribute 'strip'"), <<>>)
                ELSE Ok(Stripped(SelectSeq(profile.fields[key].items, Kept)), <<>>)

Part(label, xs) == IF xs = <<>> THEN <<>> ELSE <<label \o Join(xs, ", ")>>

Flattened(hobbies, traits, looking) ==
    IF ~hobbies.ok THEN hobbies
    ELSE IF ~traits.ok THEN traits
    ELSE IF ~looking.ok THEN looking
    ELSE Ok(Join(Part("hobbies: ", hobbies.val) \o Part("personality: ", traits.val)
                 \o Part("looking_for: ", looking.val), " | "), <<>>)

_flatten_profile(profile) ==
    IF profile.t # "obj"
    THEN Raise(Exc("AttributeError", "'" \o TypeName(profile) \o "' object has no attribute 'get'"),
               <<>>)
    ELSE Flattened(Listed(profile, "hobbies"), Listed(profile, "personality traits"),
                   Listed(profile, "traits looking for "))

embed_text(text, ienv, c) ==
    IF ienv.embed.ok
    THEN Ok(ienv.embed.vec, Append(c, Call("invoke_model", text)))
    ELSE Raise(Exc("ClientError", "ModelErrorException"), Append(c, Call("invoke_model", text)))

\* the text embed_profile embeds in place of an empty one
Sentinel == "hobbies: | personality: | looking_for: "

\* no fallback: the flattened text is embedded as it is
EmbedOf_asis(flat, ienv, c) ==
    IF ~flat.ok THEN Raise(flat.exc, c) ELSE embed_text(flat.val, ienv, c)
EmbedOf(flat, ienv, c) ==
    IF ~flat.ok THEN Raise(flat.exc, c)
    ELSE IF flat.val = "" THEN embed_text(Sentinel, ienv, c)
    ELSE embed_text(flat.val, ienv, c)

embed_profile(profile, ienv, c) == EmbedOf(_flatten_profile(profile), ienv, c)

\* lambda_function.py: profile.json, then vector.json, under profiles/<profile_name>/
_save_profile_and_vector(S, profile_name, profile, vector) ==
    Put(Put(S, ProfileKey(profile_name), JsonObject(profile)),
        VectorKey(profile_name), JsonObject(PyList(vector)))

\* lambda_handler: what it returns or raises, and the bucket it leaves
Ended(r, S) == [ok |-> r.ok, val |-> r.val, exc |-> r.exc, calls |-> r.calls, store |-> S]

\* the two puts of _save_profile_and_vector in the other order
Saved_vector_first(key, S, profile, e) ==
    IF ~e.ok THEN Ended(e, S)
    ELSE Ended(Ok([statusCode |-> 200,
                   body |-> [ok |-> TRUE, profile_name |-> Str(_base_name(key)),
                             saved |-> [profile_key |-> ProfileKey(_base_name(key)),
                                        vector_key |-> VectorKey(_base_name(key))]]],
                  e.calls \o <<Call("put_object", VectorKey(_base_name(key))),
                               Call("put_object", ProfileKey(_base_name(key)))>>),
               _save_profile_and_vector(S, _base_name(key), profile, e.val))

\* lines 141-151: the puts follow the embedding, profile.json first
Saved(key, S, profile, e) ==
    IF ~e.ok THEN Ended(e, S)
    ELSE Ended(Ok([statusCode |-> 200,
                   body |-> [ok |-> TRUE, profile_name |-> Str(_base_name(key)),
                             saved |-> [profile_key |-> ProfileKey(_base_name(key)),
                                        vector_key |-> VectorKey(_base_name(key))]]],
                  e.calls \o <<Call("put_object", ProfileKey(_base_name(key))),
                               Call("put_object", VectorKey(_base_name(key)))>>),
               _save_profile_and_vector(S, _base_name(key), profile, e.val))

\* profile.json put as soon as the profile is there, before the embedding
Profiled_put_first(ienv, key, S, p) ==
    IF ~p.ok THEN Ended(p, S)
    ELSE Saved(key, Put(S, ProfileKey(_base_name(key)), JsonObject(p.val)), p.val,
               embed_profile(p.val, ienv, p.calls))

\* lines 141-148: the embedding of the profile, then the save
Profiled(ienv, key, S, p) ==
    IF ~p.ok THEN Ended(p, S)
    ELSE Saved(key, S, p.val, embed_profile(p.val, ienv, p.calls))

\* line 139: len(transcript_text)
Loaded(ienv, key, S, t) ==
    IF ~t.ok THEN Ended(t, S)
    ELSE IF t.val.t \in {"null", "num"}
    THEN Ended(Raise(Exc("TypeError", "object of type '" \o TypeName(t.val) \o "' has no len()"),
                     t.calls), S)
    ELSE Profiled(ienv, key, S, build_profile_from_transcript(t.val, ienv, t.calls))

\* v is what run_vpm gave; it is kept beside the outcome of the run
Ran(ienv, key, v) ==
    [vpm |-> v.res]
        @@ Loaded(ienv, key, v.store, _load_transcript_text(v.store, ienv, key, v.res, v.calls))

lambda_handler(S, ienv, rawkey) ==
    Ran(ienv, unquote_plus(rawkey), run_vpm(S, ienv, unquote_plus(rawkey)))

(***************************************************************************)
(* Requests, store contents and service behaviours the model draws from    *)
(***************************************************************************)
SeqsUpTo(S, n) == UNION {[1..k -> S] : k \in 0..n}

Names == SeqsUpTo({"A", " "}, MaxNameLen)

\* what a JSON object may hold under profileA / profileB
Payloads ==
    {PyDict(f) : f \in UNION {[D -> {None, PyNum(0), PyNum(5)} \cup {PyStr(n) : n \in Names}] :
                                D \in SUBSET {"profileA", "profileB"}}}

Garbage == [kind |-> "garbage", val |-> None]
JsonText(v) == [kind |-> "json", val |-> v]
Texts ==
    {Garbage} \cup {JsonText(v) : v \in Payloads \cup {None, PyNum(5), PyList(<<>>), PyStr(<<"A">>)}}

Events ==
    {[isBase64Encoded |-> FALSE, body |-> [enc |-> "plain", text |-> t]] : t \in Texts}
    \cup {[isBase64Encoded |-> TRUE, body |-> [enc |-> "b64", text |-> t]] : t \in Texts}
    \cup {[isBase64Encoded |-> TRUE, body |-> [enc |-> e, text |-> Garbage]] : e \in {"badpad", "nonutf8"}}

\* the identifiers the bucket may hold profiles for
Alice == <<"a">>
Bob == <<"a", "a">>
StoreKeys == {VectorKey(i) : i \in {Alice, Bob}} \cup {ProfileKey(i) : i \in {Alice, Bob}}

Vectors == {PyList(x) : x \in SeqsUpTo((0 - MaxAbs)..MaxAbs, MaxDim)}

ProfileFields == {"hobbies", "personality traits", "traits looking for"}
EmptyProfile == PyDict(<<>>)
ChessProfile ==
    PyDict([k \in ProfileFields |->
              IF k = "hobbies" THEN PyList(<<PyStr(<<"c", "h", "e", "s", "s">>)>>) ELSE PyList(<<>>)])

VectorObjects == {Absent} \cup {JsonObject(PyList(x)) : x \in {<<1, 0>>, <<0, 1>>}}
\* profile.json is absent, is not JSON, or holds a profile
ProfileObjects ==
    {Absent, TextObject(<<"{", "h">>), JsonObject(EmptyProfile), JsonObject(ChessProfile)}

Stores ==
    {S \in [StoreKeys -> VectorObjects \cup ProfileObjects] :
        \A i \in {Alice, Bob} : S[VectorKey(i)] \in VectorObjects /\ S[ProfileKey(i)] \in ProfileObjects}

SummaryText == <<"\"", "S", "p", "o", "r", "t", "y", "\"">>
IceText == <<"1", ".", " ", "H", "i", "?", "\n", "2", ".", " ", "Y", "o", "?">>

Envs ==
    [headError : {{}} \cup {{k} : k \in StoreKeys},
     genA : {GenFail, GenOk(<<SummaryText>>)},
     genB : {GenFail, GenOk(<<SummaryText>>)},
     genIce : {GenFail, GenOk(<<IceText>>)}]

\* the services all up, or the text-generation service down
BasicEnvs == {e \in Envs : e.headError = {} /\ e.genA = e.genB /\ e.genB.ok = e.genIce.ok}

\* buckets in which Bob is fully ingested
BasicStores ==
    {S \in Stores : S[VectorKey(Bob)] = JsonObject(PyList(<<0, 1>>))
                    /\ S[ProfileKey(Bob)] = JsonObject(ChessProfile)}

\* well-formed requests naming the identifiers the bucket may know
PlainEvent(v) == [isBase64Encoded |-> FALSE, body |-> [enc |-> "plain", text |-> JsonText(v)]]
EnrichEvents ==
    {PlainEvent(PyDict([k \in {"profileA", "profileB"} |->
                          IF k = "profileA" THEN PyStr(n) ELSE PyStr(m)])) :
        n \in {<<"A">>, <<"A", "A">>}, m \in {<<"A">>, <<"A", "A">>}}

\* recordings uploaded to the bucket, as the storage event spells their keys
RecordingKeys ==
    {<<"A", ".", "m">>, <<"u", "/", "a", ".", "m">>, <<"u", "/", "A", "+">>}
RecordingNames == {_base_name(unquote_plus(k)) : k \in RecordingKeys}

\* what the services of one ingestion run do
SchemaProfile ==
    PyDict([k \in {"hobbies", "traits looking for "} |->
              IF k = "hobbies" THEN PyList(<<PyStr(<<" ", "g", "o">>), PyStr(<<" ">>), None>>)
              ELSE PyList(<<PyStr(<<"k", "i", "n", "d">>)>>)])
NumberProfile == PyDict([k \in {"hobbies"} |-> PyList(<<PyNum(5)>>)])
GoodIngest ==
    [job |-> [final |-> "COMPLETED", at |-> 1], output |-> [present |-> TRUE, text |-> <<"h", "i">>],
     genProfile |-> GenOk(<<ProfileText(<<>>, ChessProfile, <<>>)>>),
     embed |-> [ok |-> TRUE, vec |-> <<1, 0>>], headError |-> {}]
IngestEnvs ==
    {[GoodIngest EXCEPT !.job = j] :
        j \in {[final |-> "COMPLETED", at |-> MaxPolls], [final |-> "COMPLETED", at |-> MaxPolls + 1],
               [final |-> "FAILED", at |-> 2]}}
    \cup {[GoodIngest EXCEPT !.output = o] :
        o \in {[present |-> FALSE, text |-> <<>>]}
              \cup {[present |-> TRUE, text |-> t] : t \in {<<>>, <<"{", "h">>}}}
    \cup {[GoodIngest EXCEPT !.genProfile = g] :
        g \in {GenFail, GenOk(<<>>), GenOk(<<ProfileText(<<"x">>, NoDoc, <<>>)>>),
              GenOk(<<ProfileText(<<"{", "x", "}">>, NoDoc, <<>>)>>)}
              \cup {GenOk(<<t>>) : t \in {ProfileText(<<>>, ChessProfile, <<>>),
                                          ProfileText(<<>>, PyList(<<>>), <<>>),
                                          ProfileText(<<>>, NumberProfile, <<>>),
                                          ProfileText(<<>>, EmptyProfile, <<>>),
                                          ProfileText(<<"x", " ">>, SchemaProfile, <<" ", "x">>)}}}
    \cup {[GoodIngest EXCEPT !.embed = [ok |-> FALSE, vec |-> <<>>]]}
    \cup {[GoodIngest EXCEPT !.headError = {TxtKey(n) : n \in RecordingNames}]}

\* well-formed requests naming the recordings by their base file names
RecordingEvents ==
    {PlainEvent(PyDict([k \in {"profileA", "profileB"} |->
                          IF k = "profileA" THEN PyStr(n) ELSE PyStr(m)])) :
        n \in RecordingNames, m \in RecordingNames}

(***************************************************************************)
(* The similarity service serving requests against a bucket                *)
(***************************************************************************)
QuietEnv ==
    [headError |-> {}, genA |-> GenOk(<<SummaryText>>), genB |-> GenOk(<<SummaryText>>),
     genIce |-> GenOk(<<IceText>>)]
NoEvent == [isBase64Encoded |-> FALSE, body |-> [enc |-> "none", text |-> Garbage]]
NoResp == [raised |-> FALSE, exc |-> NoExc, ret |-> _json([error |-> ""], 0)]

\* One invocation of handler: the event arrives, handler runs to its return.
Returns(ev, world, r) ==
    /\ event = NoEvent
    /\ event' = ev
    /\ services' = world
    /\ resp' = [raised |-> ~r.ok, exc |-> r.exc,
                ret |-> IF r.ok THEN r.val ELSE _json([error |-> ""], 0)]
    /\ calls' = r.calls
    /\ UNCHANGED <<store, ingested, resolved>>

Request(ev, world) == Returns(ev, world, handler(store, world, ev))

NoResolution ==
    [done |-> FALSE, key |-> <<>>, arg |-> VpmResult(FALSE, "", ""), headError |-> {},
     ret |-> Ok(None, <<>>)]

Idle ==
    /\ event = NoEvent
    /\ services = QuietEnv
    /\ resp = NoResp
    /\ calls = <<>>
    /\ ingested = <<>>
    /\ resolved = NoResolution

\* Any request whatever, against a bucket in which Bob is fully ingested.
Init == store \in BasicStores /\ Idle
Next == \E ev \in Events, world \in BasicEnvs : Request(ev, world)
Spec == Init /\ [][Next]_vars

\* Well-formed requests against any bucket, the services failing in any way.
InitEnrich == store \in Stores /\ Idle
NextEnrich == \E ev \in EnrichEvents, world \in Envs : Request(ev, world)
SpecEnrich == InitEnrich /\ [][NextEnrich]_vars

\* The cosine step: both profiles have a vector and no profile.json.
CosStore(x, y) ==
    [k \in StoreKeys |->
        IF k = VectorKey(Alice) THEN JsonObject(PyList(x))
        ELSE IF k = VectorKey(Bob) THEN JsonObject(PyList(y))
        ELSE Absent]
InitCos == store \in {CosStore(v.items, w.items) : v \in Vectors, w \in Vectors} /\ Idle
NextCos == \E ev \in EnrichEvents : Request(ev, QuietEnv)
SpecCos == InitCos /\ [][NextCos]_vars

\* The icebreaker step: both profiles are fully ingested, Alice is compared
\* with Bob, and the text-generation service answers anything.
IcebreakerMaxLen == 70
IceAnswers ==
    {GenFail, GenOk(<<>>), GenOk(<<<<"1", ".">>, <<" ", "x", "?">>>>)}
    \cup {GenOk(<<t>>) :
            t \in SeqsUpTo({"1", "-", "?", "x", " ", "\n"}, MaxTextLen)
                  \cup {IceText,
                        IceText \o <<"\n", "-", " ", "Z", "?">>,
                        <<"1", ".", " ">> \o [i \in 1..IcebreakerMaxLen |-> "x"] \o <<"?">>}}
InitIce ==
    /\ store = [k \in StoreKeys |->
                  IF k = VectorKey(Alice) THEN JsonObject(PyList(<<1, 0>>))
                  ELSE IF k = VectorKey(Bob) THEN JsonObject(PyList(<<0, 1>>))
                  ELSE JsonObject(ChessProfile)]
    /\ Idle
NextIce ==
    \E g \in IceAnswers :
        Request(PlainEvent(PyDict([k \in {"profileA", "profileB"} |->
                                     IF k = "profileA" THEN PyStr(<<"A">>)
                                     ELSE PyStr(<<"A", "A">>)])),
                [QuietEnv EXCEPT !.genIce = g])
SpecIce == InitIce /\ [][NextIce]_vars

\* The pipeline ingests recordings into an empty bucket, one run after the
\* other, and then a request names two of them.
MaxRuns == 2

\* One invocation of lambda_handler on the storage event of a recording.
Finished(rawkey, ienv, r) ==
    /\ event = NoEvent
    /\ Len(ingested) < MaxRuns
    /\ store' = r.store
    /\ ingested' = Append(ingested, [key |-> rawkey, env |-> ienv, vpm |-> r.vpm, ok |-> r.ok,
                                     exc |-> r.exc, ret |-> r.val, calls |-> r.calls])
    /\ UNCHANGED <<event, services, resp, calls, resolved>>

Ingest(rawkey, ienv) == Finished(rawkey, ienv, lambda_handler(store, ienv, rawkey))

InitIngest == store = [k \in {} |-> Absent] /\ Idle
NextIngest ==
    \/ \E rawkey \in RecordingKeys, ienv \in IngestEnvs : Ingest(rawkey, ienv)
    \/ \E ev \in RecordingEvents : Request(ev, QuietEnv)
SpecIngest == InitIngest /\ [][NextIngest]_vars

\* The summary step: both profiles are fully ingested and the text-generation
\* service answers the summary of profileA with anything.
SummaryAnswers ==
    {GenFail, GenOk(<<>>), GenOk(<<<<"\"", "a">>, <<" ", "b", "\"">>>>)}
    \cup {GenOk(<<t>>) :
            t \in SeqsUpTo({"\"", "BQ", "a", " ", "\n"}, MaxTextLen)
                  \cup {[i \in 1..(SummaryMaxLen + 1) |-> "x"],
                        [i \in 1..(SummaryMaxLen + 1) |-> IF i = SummaryMaxLen THEN " " ELSE "x"],
                        <<"\"">> \o [i \in 1..(SummaryMaxLen + 2) |-> "x"] \o <<"\"">>,
                        [i \in 1..(SummaryMaxLen + 2) |-> IF i \in {2, 3, 4} THEN " " ELSE "x"]}}
InitSum == InitIce
NextSum ==
    \E ev \in EnrichEvents, g \in SummaryAnswers : Request(ev, [QuietEnv EXCEPT !.genA = g])
SpecSum == InitSum /\ [][NextSum]_vars

\* The embedding step: one recording is ingested and the profile extractor
\* answers with any profile of lists of strings.
MaxItems == 2
FlattenKeys == {"hobbies", "personality traits", "traits looking for "}
EntryLists == {PyList([i \in 1..Len(x) |-> PyStr(x[i])]) : x \in SeqsUpTo({<<>>, <<" ">>, <<"a">>}, MaxItems)}
ListProfiles ==
    {PyDict(f) : f \in {g \in UNION {[D -> EntryLists] : D \in SUBSET FlattenKeys} :
                            "personality traits" \in DOMAIN g =>
                                g["personality traits"] \in {PyList(<<>>), PyList(<<PyStr(<<"a">>)>>)}}}
InitEmbed == InitIngest
NextEmbed ==
    \E p \in ListProfiles :
        /\ ingested = <<>>
        /\ Ingest(<<"u", "/", "a", ".", "m">>, [GoodIngest EXCEPT !.genProfile = GenOk(<<ProfileText(<<>>, p, <<>>)>>)])
SpecEmbed == InitEmbed /\ [][NextEmbed]_vars

\* Transcript resolution on its own: _load_transcript_text is called for the
\* recording u/a.m with any job result, against any transcripts in the bucket.
OtherKey == "transcripts/job/out.json"
SimpleTranscript == PyDict([k \in {"transcript"} |-> PyStr(<<"s">>)])
NestedTranscript ==
    PyDict([k \in {"results"} |->
        PyDict([j \in {"transcripts"} |->
            PyList(<<PyDict([l \in {"transcript"} |-> PyStr(<<"n">>)])>>)])])
TranscriptObjects ==
    {Absent, TextObject(<<"h", "i">>), TextObject(<<" ">>), TextObject(<<"{", "h">>),
     JsonObject(SimpleTranscript), JsonObject(NestedTranscript), JsonObject(EmptyProfile),
     JsonObject(PyDict([k \in {"transcript", "results"} |->
                          IF k = "transcript" THEN PyStr(<<"s">>)
                          ELSE NestedTranscript.fields["results"]]))}
TranscriptStores ==
    {S \in [{TxtKey(<<"a">>), JsonKey(<<"a">>), OtherKey} -> TranscriptObjects] :
        S[TxtKey(<<"a">>)].kind # "json"}
VpmResults ==
    {[VpmResult(ok, "", tkey) EXCEPT !.transcript = t] :
        ok \in BOOLEAN, tkey \in {"", TxtKey(<<"a">>), OtherKey},
        t \in {None, PyNum(5), PyStr(<<>>), PyStr(<<" ">>), PyStr(<<"i", "n">>)}}

Resolved(orig_key, vpm_result, ienv, r) ==
    /\ ~resolved.done
    /\ resolved' = [done |-> TRUE, key |-> orig_key, arg |-> vpm_result,
                    headError |-> ienv.headError, ret |-> r]
    /\ UNCHANGED <<store, event, services, resp, calls, ingested>>

Resolve(orig_key, vpm_result, ienv) ==
    Resolved(orig_key, vpm_result, ienv,
             _load_transcript_text(store, ienv, orig_key, vpm_result, <<>>))

InitResolve == store \in TranscriptStores /\ Idle
NextResolve ==
    \E vpm_result \in VpmResults,
       failing \in {{}, {TxtKey(<<"a">>)}, {JsonKey(<<"a">>)}, {OtherKey}} :
        Resolve(<<"u", "/", "a", ".", "m">>, vpm_result, [GoodIngest EXCEPT !.headError = failing])
SpecResolve == InitResolve /\ [][NextResolve]_vars

\* The status poll: one recording is ingested, its transcription job reaching
\* COMPLETED or FAILED at any poll, or after the last one, and the job's
\* output being listed under its prefix or not.
Jobs == [final : {"COMPLETED", "FAILED"}, at : 1..(MaxPolls + 2)]
Outputs == [present : BOOLEAN, text : {<<>>, <<"h", "i">>}]
InitPoll == InitIngest
NextPoll ==
    \E rawkey \in RecordingKeys, job \in Jobs, output \in Outputs :
        /\ ingested = <<>>
        /\ Ingest(rawkey, [GoodIngest EXCEPT !.job = job, !.output = output])
SpecPoll == InitPoll /\ [][NextPoll]_vars

\* The profile extraction: one recording is ingested and the text-generation
\* service answers with any short text around at most one JSON document.
Documents == {NoDoc, ChessProfile, EmptyProfile, SchemaProfile, PyList(<<>>), PyNum(5)}
Answers ==
    {ProfileText(pre, doc, post) :
        pre \in SeqsUpTo({"x", " ", "{", "}"}, MaxTextLen), doc \in Documents,
        post \in SeqsUpTo({"x", " ", "{", "}"}, 1)}
InitExtract == InitIngest
NextExtract ==
    \E text \in Answers :
        /\ ingested = <<>>
        /\ Ingest(<<"u", "/", "a", ".", "m">>, [GoodIngest EXCEPT !.genProfile = GenOk(<<text>>)])
SpecExtract == InitExtract /\ [][NextExtract]_vars

\* A crash: the run of lambda_handler stops after n of its service calls, so
\* the bucket holds the puts among them and nothing of the later ones.
RECURSIVE After(_, _, _, _)
After(S, T, cs, n) ==
    IF n = 0 THEN S
    ELSE IF cs[n].op = "put_object"
    THEN Put(After(S, T, cs, n - 1), cs[n].arg, T[cs[n].arg])
    ELSE After(S, T, cs, n - 1)

Cut(r, n) ==
    [vpm |-> r.vpm, store |-> After(store, r.store, r.calls, n)]
        @@ Raise(Exc("Crash", "the run stopped"), SubSeq(r.calls, 1, n))

Crashes(rawkey, ienv, r) ==
    \E n \in 0..(Len(r.calls) - 1) : Finished(rawkey, ienv, Cut(r, n))

Crash(rawkey, ienv) == Crashes(rawkey, ienv, lambda_handler(store, ienv, rawkey))

\* Runs that end or crash: recordings are ingested one after the other, each
\* run going through or stopping at any call.
InitCrash == InitIngest
NextCrash ==
    \E rawkey \in RecordingKeys :
        \/ Ingest(rawkey, GoodIngest)
        \/ Crash(rawkey, GoodIngest)
SpecCrash == InitCrash /\ [][NextCrash]_vars

\* Concurrent runs: each run of lambda_handler goes up to its embedding in one
\* step and then makes the puts of _save_profile_and_vector one at a time, so
\* the puts of runs in flight interleave. todo holds the puts a run has still
\* to make and done those it has made, each with the object it puts.
Trailing(r) == IF r.ok THEN 2 ELSE 0
PutsOf(r) ==
    [j \in 1..Trailing(r) |->
        [call |-> r.calls[Len(r.calls) - Trailing(r) + j],
         obj |-> r.store[r.calls[Len(r.calls) - Trailing(r) + j].arg]]]

Begun(rawkey, ienv, r) ==
    /\ event = NoEvent
    /\ Len(ingested) < MaxRuns
    /\ store' = After(store, r.store, r.calls, Len(r.calls) - Trailing(r))
    /\ ingested' = Append(ingested,
                          [key |-> rawkey, env |-> ienv, vpm |-> r.vpm, ok |-> r.ok, exc |-> r.exc,
                           ret |-> r.val, calls |-> SubSeq(r.calls, 1, Len(r.calls) - Trailing(r)),
                           todo |-> PutsOf(r), done |-> <<>>])
    /\ UNCHANGED <<event, services, resp, calls, resolved>>

Begin(rawkey, ienv) == Begun(rawkey, ienv, lambda_handler(store, ienv, rawkey))

PutNext(i) ==
    /\ ingested[i].todo # <<>>
    /\ store' = Put(store, Head(ingested[i].todo).call.arg, Head(ingested[i].todo).obj)
    /\ ingested' = [ingested EXCEPT ![i].todo = Tail(@),
                                    ![i].done = Append(@, Head(ingested[i].todo)),
                                    ![i].calls = Append(@, Head(ingested[i].todo).call)]
    /\ UNCHANGED <<event, services, resp, calls, resolved>>

OtherIngest ==
    [GoodIngest EXCEPT !.genProfile = GenOk(<<ProfileText(<<>>, SchemaProfile, <<>>)>>),
                       !.embed = [ok |-> TRUE, vec |-> <<0, 1>>]]
InitConcurrent == InitIngest
NextConcurrent ==
    \/ \E rawkey \in RecordingKeys, ienv \in {GoodIngest, OtherIngest} : Begin(rawkey, ienv)
    \/ \E i \in 1..Len(ingested) : PutNext(i)
SpecConcurrent == InitConcurrent /\ [][NextConcurrent]_vars

\* Failing runs: recordings are ingested one after the other, each run going
\* through or failing in the transcript resolution (its job fails, or the
\* existence check does), in the profile extraction or in the embedding.
FailEnvs ==
    {GoodIngest, OtherIngest,
     [GoodIngest EXCEPT !.job = [final |-> "FAILED", at |-> 1]],
     [GoodIngest EXCEPT !.headError = {TxtKey(n) : n \in RecordingNames}],
     [GoodIngest EXCEPT !.genProfile = GenFail],
     [GoodIngest EXCEPT !.genProfile = GenOk(<<ProfileText(<<"{", "x", "}">>, NoDoc, <<>>)>>)],
     [GoodIngest EXCEPT !.genProfile = GenOk(<<ProfileText(<<>>, PyNum(5), <<>>)>>)],
     [GoodIngest EXCEPT !.embed = [ok |-> FALSE, vec |-> <<>>]]}
InitFail == InitIngest
NextFail == \E rawkey \in RecordingKeys, ienv \in FailEnvs : Ingest(rawkey, ienv)
SpecFail == InitFail /\ [][NextFail]_vars

(***************************************************************************)
(* What a state says about the request it has served                       *)
(***************************************************************************)
Served == event # NoEvent
Status == resp.ret.statusCode
Body == resp.ret.body

\* the body reaches json.loads, and what it parses to
Decodes == event.body.enc \in {"plain", "b64"}
ParsedObject == Decodes /\ event.body.text.kind = "json" /\ event.body.text.val.t = "obj"
Field(k) == DictGet(event.body.text.val, k)
BothStrings == ParsedObject /\ Field("profileA").t = "str" /\ Field("profileB").t = "str"
IdA == lower(strip(Field("profileA").s))
IdB == lower(strip(Field("profileB").s))

NoVector(id) == Lookup(store, VectorKey(id)).kind = "absent"
NoProfile(id) == Lookup(store, ProfileKey(id)).kind = "absent"
StoredVector(id) == Lookup(store, VectorKey(id)).val.items

\* both get_object calls for the vectors were made (and a stored vector parses)
VectorsLoaded ==
    /\ BothStrings
    /\ Len(calls) >= 4
    /\ calls[2] = Call("get_object", VectorKey(IdA))
    /\ calls[4] = Call("get_object", VectorKey(IdB))

StoredCosine == _cosine(StoredVector(IdA), StoredVector(IdB))

(***************************************************************************)
(* C1: once both vectors are loaded, every enrichment failure degrades to  *)
(* a null field: the response has status 200 and its similarity is the     *)
(* cosine of the two stored vectors.                                       *)
(***************************************************************************)
C1_EnrichmentNeverFails ==
    (Served /\ VectorsLoaded) =>
        (~resp.raised /\ Status = 200 /\ Body.similarity = StoredCosine)

(***************************************************************************)
(* C2: a request flagged isBase64Encoded whose body does not decode        *)
(* (invalid base64, or bytes that are not UTF-8) is answered with status   *)
(* 400 and the error "Invalid JSON body".                                  *)
(***************************************************************************)
C2_UndecodableBodyIs400 ==
    (Served /\ event.isBase64Encoded /\ event.body.enc \in {"badpad", "nonutf8"}) =>
        (~resp.raised /\ Status = 400 /\ Body.error = "Invalid JSON body")

(***************************************************************************)
(* C3: a request whose body is not JSON, is JSON but not an object, or is  *)
(* an object whose profileA or profileB is absent, null or not a string,   *)
(* is answered with status 400.                                            *)
(***************************************************************************)
MalformedRequest ==
    /\ Decodes
    /\ \/ event.body.text.kind # "json"
       \/ event.body.text.val.t # "obj"
       \/ Field("profileA").t # "str"
       \/ Field("profileB").t # "str"

C3_MalformedBodyIs400 ==
    (Served /\ MalformedRequest) => (~resp.raised /\ Status = 400)

(***************************************************************************)
(* C4: when profileA or profileB is empty after sanitization, the response *)
(* has status 400 and the request made no object-store call and no         *)
(* text-generation call.                                                   *)
(***************************************************************************)
EmptyAfterSanitize(v) == _sanitize(v, <<>>).ok /\ _sanitize(v, <<>>).val.s = <<>>

C4_EmptyIdentifierIs400 ==
    (Served /\ ParsedObject
        /\ (EmptyAfterSanitize(Field("profileA")) \/ EmptyAfterSanitize(Field("profileB")))) =>
        (~resp.raised /\ Status = 400 /\ calls = <<>>)

(***************************************************************************)
(* C5: for two non-empty sanitized identifiers (identical ones included),  *)
(* if vector.json is absent for either, the response has status 404, its   *)
(* error names the key profiles/<id>/vector.json of an identifier whose    *)
(* vector the existence check reported missing, and the request made no    *)
(* profile load and no text-generation call.                               *)
(***************************************************************************)
C5_MissingVectorIs404 ==
    (Served /\ BothStrings /\ IdA # <<>> /\ IdB # <<>> /\ (NoVector(IdA) \/ NoVector(IdB))) =>
        /\ ~resp.raised
        /\ Status = 404
        /\ \E m \in {IdA, IdB} :
              /\ ~_head_exists(store, services, VectorKey(m))
              /\ Body.error = "Vector file not found: " \o VectorKey(m)
        /\ \A i \in 1..Len(calls) :
              /\ calls[i].op # "converse"
              /\ calls[i].arg \notin {ProfileKey(IdA), ProfileKey(IdB)}

\* the same unknown identifier twice
C5_Witness ==
    /\ Served /\ BothStrings
    /\ IdA = IdB /\ IdA # <<>> /\ NoVector(IdA)
    /\ Status = 404
    /\ Body.error = "Vector file not found: profiles/a/vector.json"

(***************************************************************************)
(* C6: when both vectors exist and profile.json is absent for at least one *)
(* of the two identifiers, the response has status 200, its similarity is  *)
(* the cosine of the stored vectors, the summary of each identifier        *)
(* without a profile is null, and icebreakers is null.                     *)
(***************************************************************************)
C6_MissingProfileDegrades ==
    (Served /\ VectorsLoaded /\ (NoProfile(IdA) \/ NoProfile(IdB))) =>
        /\ ~resp.raised
        /\ Status = 200
        /\ Body.similarity = StoredCosine
        /\ \A id \in {IdA, IdB} : NoProfile(id) => Body.summaries[Str(id)] = None
        /\ Body.icebreakers = None

(***************************************************************************)
(* C7: after every successful ingestion of a recording, profile.json and   *)
(* vector.json are stored under the sanitized (trimmed, lower-cased) form  *)
(* of the recording's base file name, and a request whose profileA and     *)
(* profileB are base file names of successfully ingested recordings is not *)
(* answered with status 404.                                               *)
(***************************************************************************)
IngestedNames ==
    {_base_name(unquote_plus(ingested[i].key)) : i \in {j \in 1..Len(ingested) : ingested[j].ok}}

C7_StoredUnderSanitizedName ==
    /\ \A n \in IngestedNames :
          ~NoVector(lower(strip(n))) /\ ~NoProfile(lower(strip(n)))
    /\ (Served /\ BothStrings
            /\ Field("profileA").s \in IngestedNames /\ Field("profileB").s \in IngestedNames) =>
          (~resp.raised /\ Status # 404)

(***************************************************************************)
(* C8: handler never raises: it returns a response whose status is one of  *)
(* 200, 400, 404, 500, and an exception that no inner step handles yields  *)
(* status 500 with the body {"error": <the exception's message>}.          *)
(***************************************************************************)
AnsweredAs500(r) == ~r.ok => (Status = 500 /\ Body = [error |-> r.exc.msg])

C8_HandlerNeverRaises ==
    Served =>
        /\ ~resp.raised
        /\ Status \in {200, 400, 404, 500}
        /\ AnsweredAs500(handler_try(store, services, event))

\* an AttributeError out of _sanitize reached the outer except
C8_Witness ==
    /\ Served /\ ~resp.raised
    /\ Status = 500
    /\ Body = [error |-> "'int' object has no attribute 'strip'"]

(***************************************************************************)
(* C9: the cosine the handler computes is exactly 0.0, with no division    *)
(* made, whenever a stored vector has zero norm (all entries zero, or no   *)
(* entry); the vectors [1,0] and [0,1] give exactly 0.0 by the division of *)
(* their dot product.                                                      *)
(***************************************************************************)
ZeroNorm(v) == \A i \in 1..Len(v) : v[i] = 0

C9_ZeroNormGivesZero ==
    (Served /\ VectorsLoaded /\ Status = 200) =>
        LET x == StoredVector(IdA)
            y == StoredVector(IdB)
            sim == Body.similarity
        IN  /\ (ZeroNorm(x) \/ ZeroNorm(y)) => (sim.num = 0 /\ ~sim.divided)
            /\ (x = <<1, 0>> /\ y = <<0, 1>>) => (sim.num = 0 /\ sim.divided)

\* an all-zero vector compared with a unit vector
C9_Witness ==
    /\ Served /\ VectorsLoaded /\ Status = 200
    /\ StoredVector(IdA) = <<0, 0>> /\ StoredVector(IdB) = <<0, 1>>
    /\ Body.similarity = Float(0, 1, FALSE)

(***************************************************************************)
(* C10: whenever the icebreakers field of a response is not null, it is a  *)
(* list of at most 2 strings of at most 70 characters each, whatever text  *)
(* the generation service returns.                                         *)
(***************************************************************************)
C10_IcebreakersAreShort ==
    (Served /\ Status = 200 /\ Body.icebreakers.t # "null") =>
        /\ Len(Body.icebreakers.items) <= 2
        /\ \A i \in 1..Len(Body.icebreakers.items) :
              Len(Body.icebreakers.items[i]) <= IcebreakerMaxLen


(***************************************************************************)
(* C11: every summary of a response that is not null has at most 30        *)
(* characters, no whitespace at either end and no two adjacent whitespace  *)
(* characters, whatever text the generation service returns; and when the  *)
(* returned text, trimmed, has at most 30 characters and both starts and   *)
(* ends with a quote or fence mark, the summary neither starts nor ends    *)
(* with a quote or fence character.                                        *)
(***************************************************************************)
Summaries == {Body.summaries[k] : k \in DOMAIN Body.summaries}
AnswerA == strip(JoinBlocks(services.genA.blocks))
Surrounded(s) ==
    Len(s) <= SummaryMaxLen
        /\ (\E p \in OpenMarks : StartsWith(s, p)) /\ (\E q \in CloseMarks : EndsWith(s, q))

C11_SummaryAtMost30 ==
    (Served /\ Status = 200) =>
        /\ \A m \in Summaries :
              m.t # "null" =>
                  /\ Len(m.s) <= SummaryMaxLen
                  /\ strip(m.s) = m.s
                  /\ \A i \in 1..(Len(m.s) - 1) : ~(IsSpace(m.s[i]) /\ IsSpace(m.s[i + 1]))
        /\ (IdA # IdB /\ Surrounded(AnswerA)) =>
              /\ Body.summaries[Str(IdA)].t = "str"
              /\ stripChars(Body.summaries[Str(IdA)].s, QuoteChars) = Body.summaries[Str(IdA)].s

\* an answer of 31 characters was cut to 30
C11_Witness ==
    /\ Served /\ Status = 200
    /\ services.genA.ok
    /\ Len(JoinBlocks(services.genA.blocks)) > SummaryMaxLen
    /\ Body.summaries[Str(IdA)] = PyStr([i \in 1..SummaryMaxLen |-> "x"])

(***************************************************************************)
(* What a state says about the ingestion runs that have ended              *)
(***************************************************************************)
Runs == 1..Len(ingested)
RunName(i) == _base_name(unquote_plus(ingested[i].key))
\* the profile the run extracted and stored
RunProfile(i) == Lookup(store, ProfileKey(RunName(i))).val
\* the texts the run sent to the embedding service
Embedded(i) ==
    {ingested[i].calls[j].arg :
        j \in {k \in 1..Len(ingested[i].calls) : ingested[i].calls[k].op = "invoke_model"}}
\* all three lists are empty, missing, or hold only blank entries
EmptyLists(profile) ==
    \A k \in FlattenKeys \cap DOMAIN profile.fields :
        \A j \in 1..Len(profile.fields[k].items) : strip(profile.fields[k].items[j].s) = <<>>

Inline == resolved.arg.transcript.t = "str" /\ strip(resolved.arg.transcript.s) # <<>>
Base == _base_name(resolved.key)
Exists(key) == Lookup(store, key).kind # "absent"

(***************************************************************************)
(* C13: when the job result carries a non-blank inline transcript string,  *)
(* transcript resolution returns that string and makes no object-store     *)
(* call, whether or not the result carries a transcriptKey and whatever    *)
(* the bucket holds under transcripts/<base>.txt and .json.                *)
(***************************************************************************)
C13_InlineTranscriptWins ==
    (resolved.done /\ Inline) =>
        /\ resolved.ret.ok
        /\ resolved.ret.val = resolved.arg.transcript
        /\ resolved.ret.calls = <<>>

\* inline text beside a transcriptKey whose object exists with another text
C13_Witness ==
    /\ resolved.done /\ Inline
    /\ resolved.arg.transcriptKey = TxtKey(Base)
    /\ Lookup(store, TxtKey(Base)) = TextObject(<<"h", "i">>)
    /\ Exists(JsonKey(Base))
    /\ resolved.ret = Ok(PyStr(<<"i", "n">>), <<>>)

(***************************************************************************)
(* C14: when the job result has no inline text and no transcriptKey and    *)
(* the bucket holds transcripts/<base>.json but no transcripts/<base>.txt, *)
(* transcript resolution returns the payload's direct transcript field if  *)
(* the payload has one, and otherwise its results.transcripts[0].transcript *)
(* (the existence checks of the two keys answering).                       *)
(***************************************************************************)
Payload == Lookup(store, JsonKey(Base)).val
OnlyJson ==
    /\ ~Inline /\ resolved.arg.transcriptKey = ""
    /\ ~Exists(TxtKey(Base)) /\ Lookup(store, JsonKey(Base)).kind = "json"
    /\ resolved.headError \cap {TxtKey(Base), JsonKey(Base)} = {}

C14_JsonArtifactIsParsed ==
    (resolved.done /\ OnlyJson) =>
        /\ "transcript" \in DOMAIN Payload.fields =>
              (resolved.ret.ok /\ resolved.ret.val = Payload.fields["transcript"])
        /\ ("transcript" \notin DOMAIN Payload.fields /\ "results" \in DOMAIN Payload.fields) =>
              /\ resolved.ret.ok
              /\ resolved.ret.val =
                    Payload.fields["results"].fields["transcripts"].items[1].fields["transcript"]

\* a payload with both fields gave its direct transcript
C14_Witness ==
    /\ resolved.done /\ OnlyJson
    /\ DOMAIN Payload.fields = {"transcript", "results"}
    /\ resolved.ret.ok /\ resolved.ret.val = PyStr(<<"s">>)

(***************************************************************************)
(* C15: when the job result names a transcriptKey whose object does not    *)
(* appear within its wait, or whose content is not a transcript, and       *)
(* transcripts/<base>.txt exists or transcripts/<base>.json holds a        *)
(* transcript, transcript resolution does not raise: it returns the text   *)
(* of that later source.                                                   *)
(***************************************************************************)
KeySourceFails ==
    /\ ~Inline /\ resolved.arg.transcriptKey # ""
    /\ \/ ~Exists(resolved.arg.transcriptKey)
       \/ Lookup(store, resolved.arg.transcriptKey) \in
              {TextObject(<<" ">>), TextObject(<<"{", "h">>), JsonObject(EmptyProfile)}
LaterSourceText ==
    IF Exists(TxtKey(Base)) THEN Lookup(store, TxtKey(Base)).val
    ELSE IF "transcript" \in DOMAIN Payload.fields THEN Payload.fields["transcript"]
    ELSE Payload.fields["results"].fields["transcripts"].items[1].fields["transcript"]
LaterSourceYields ==
    \/ Exists(TxtKey(Base))
    \/ /\ Lookup(store, JsonKey(Base)).kind = "json"
       /\ DOMAIN Payload.fields \cap {"transcript", "results"} # {}

C15_FallsThroughToLaterSource ==
    (resolved.done /\ KeySourceFails /\ LaterSourceYields /\ resolved.headError = {}) =>
        (resolved.ret.ok /\ resolved.ret.val = LaterSourceText)

(***************************************************************************)
(* C16: the status poll of run_vpm makes at most 30 observations and stops *)
(* at the first one that shows COMPLETED or FAILED; when no observation    *)
(* shows either, the result is not ok and its status is TIMED_OUT; the     *)
(* transcript output is listed and read only when the last observation     *)
(* shows COMPLETED.                                                        *)
(***************************************************************************)
Called(i, op) == {j \in 1..Len(ingested[i].calls) : ingested[i].calls[j].op = op}
\* the number of status observations of run i
Polls(i) == ingested[i].calls[1].arg
LastStatus(i) == StatusAt(ingested[i].env.job, Polls(i))

C16_PollIsBounded ==
    \A i \in Runs :
        /\ Called(i, "get_transcription_job") = {1}
        /\ Polls(i) \in 1..MaxPolls
        /\ \A n \in 1..(Polls(i) - 1) : StatusAt(ingested[i].env.job, n) = "IN_PROGRESS"
        /\ Polls(i) < MaxPolls => LastStatus(i) \in {"COMPLETED", "FAILED"}
        /\ LastStatus(i) = "IN_PROGRESS" =>
              (~ingested[i].vpm.ok /\ ingested[i].vpm.status = "TIMED_OUT")
        /\ LastStatus(i) # "COMPLETED" =>
              (~ingested[i].vpm.ok /\ Called(i, "list_objects_v2") = {})
\* the stripped first text block of the answer run i got, its strict parse,
\* and the parse of its part from the first "{" to the last "}"
Answer(i) == StripText(ingested[i].env.genProfile.blocks[1])
Strict(i) == json_loads(Answer(i), <<>>)
HasSlice(i) == OpenAt(Answer(i)) > 0 /\ CloseAt(Answer(i)) > 0
Sliced(i) == json_loads(Slice(Answer(i)), <<>>)
\* run i went on with v as its profile: an object is stored as it is, anything
\* else fails later, in the flattening
Returned(i, v) ==
    IF v.t = "obj"
    THEN ingested[i].ok /\ RunProfile(i) = v
    ELSE ~ingested[i].ok /\ ingested[i].exc.type = "AttributeError"
\* run i wrote neither profile.json nor vector.json
StoredNothing(i) ==
    /\ ~Exists(ProfileKey(RunName(i)))
    /\ ~Exists(VectorKey(RunName(i)))
    /\ \A j \in Called(i, "put_object") :
            ingested[i].calls[j].arg \notin {ProfileKey(RunName(i)), VectorKey(RunName(i))}

(***************************************************************************)
(* C17: the answer is parsed strictly first; when that fails, its part     *)
(* from the first "{" to the last "}" is parsed; when both fail, or there  *)
(* is no such part, the extraction raises, returns no profile, and the run *)
(* stores neither profile.json nor vector.json.                            *)
(***************************************************************************)
C17_StrictThenSliceThenRaise ==
    \A i \in Runs :
        /\ Strict(i).ok => Returned(i, Strict(i).val)
        /\ ~Strict(i).ok /\ HasSlice(i) /\ Sliced(i).ok => Returned(i, Sliced(i).val)
        /\ ~Strict(i).ok /\ ~(HasSlice(i) /\ Sliced(i).ok) =>
                /\ ~ingested[i].ok
                /\ ingested[i].exc.type = "JSONDecodeError"
                /\ Called(i, "invoke_model") = {}
                /\ StoredNothing(i)

\* braces that hold no JSON object: both parses failed and the run raised
C17_Witness ==
    \E i \in Runs :
        /\ ~Strict(i).ok /\ HasSlice(i) /\ ~Sliced(i).ok
        /\ ~ingested[i].ok /\ StoredNothing(i)

\* PROFILE_SCHEMA: the three keys, each holding a list
HasSchema(profile) ==
    /\ profile.t = "obj"
    /\ DOMAIN profile.fields = ProfileFields
    /\ \A k \in ProfileFields : profile.fields[k].t = "list"

(***************************************************************************)
(* C18: whatever valid JSON text the generation service answers with, a    *)
(* profile.json the pipeline stores is an object with exactly the keys     *)
(* hobbies, personality traits and traits looking for, each holding a list.*)
(***************************************************************************)
C18_StoredProfileHasSchema ==
    \A i \in Runs :
        Strict(i).ok /\ Exists(ProfileKey(RunName(i))) => HasSchema(RunProfile(i))

\* what run_vpm left of run i: the text copy under transcripts/<base>.txt
\* and the result it returned
TextCopy(i) == Lookup(store, TxtKey(RunName(i)))
Copied(i) ==
    /\ TextCopy(i) = TextObject(ingested[i].env.output.text)
    /\ \E j \in Called(i, "put_object") : ingested[i].calls[j].arg = TxtKey(RunName(i))
    /\ ingested[i].vpm.ok
    /\ ingested[i].vpm.transcriptKey = TxtKey(RunName(i))
NotCopied(i) ==
    /\ ~Exists(TxtKey(RunName(i)))
    /\ \A j \in Called(i, "put_object") : ingested[i].calls[j].arg # TxtKey(RunName(i))
    /\ ~ingested[i].vpm.ok

\* C19 as the specification words it: a job seen COMPLETED always leaves the
\* text copy and an ok result naming it, any other job leaves none
C19_CompletedLeavesText ==
    \A i \in Runs :
        IF LastStatus(i) = "COMPLETED" THEN Copied(i) ELSE NotCopied(i)

(***************************************************************************)
(* C19: when a poll of the job answers COMPLETED and the job's output is   *)
(* listed under its prefix, run_vpm has put the transcript as plain text   *)
(* under transcripts/<base>.txt and returns ok with transcriptKey naming   *)
(* that key; in every other case the run puts no transcripts/<base>.txt    *)
(* and the result is not ok.                                               *)
(***************************************************************************)
C19_CompletedWithOutputLeavesText ==
    \A i \in Runs :
        IF LastStatus(i) = "COMPLETED" /\ ingested[i].env.output.present
        THEN Copied(i)
        ELSE NotCopied(i)

\* a job seen COMPLETED with its output listed has run
C19_Witness ==
    \E i \in Runs :
        /\ LastStatus(i) = "COMPLETED" /\ ingested[i].env.output.present
        /\ Copied(i)

\* the put of key by run i, as positions in the calls the run made
PutOf(i, key) == {j \in Called(i, "put_object") : ingested[i].calls[j].arg = key}

(***************************************************************************)
(* C20: whatever runs ended, failed or crashed at any call, vector.json is *)
(* in the bucket for an identifier only if profile.json is: a run puts     *)
(* profile.json before vector.json, and no run removes an object.          *)
(***************************************************************************)
C20_VectorOnlyWithProfile ==
    /\ \A n \in RecordingNames : Exists(VectorKey(n)) => Exists(ProfileKey(n))
    /\ \A i \in Runs :
            \A j \in PutOf(i, VectorKey(RunName(i))) :
                \E k \in PutOf(i, ProfileKey(RunName(i))) : k < j

\* a run crashed between the two puts: a profile without a vector
C20_Witness ==
    \E i \in Runs :
        /\ ingested[i].exc.type = "Crash"
        /\ PutOf(i, ProfileKey(RunName(i))) # {}
        /\ Exists(ProfileKey(RunName(i)))
        /\ ~Exists(VectorKey(RunName(i)))

\* every run has made its puts; run i made puts and the bucket holds what it put
AllFinished == \A i \in Runs : ingested[i].todo = <<>>
WroteBoth(i) ==
    /\ Len(ingested[i].done) = 2
    /\ \A j \in 1..Len(ingested[i].done) :
            Lookup(store, ingested[i].done[j].call.arg) = ingested[i].done[j].obj

(***************************************************************************)
(* C21: once all of the concurrent runs for one identifier have made both  *)
(* of their puts, the profile.json and the vector.json in the bucket were  *)
(* put by the same run.                                                    *)
(***************************************************************************)
C21_BothFromOneRun ==
    AllFinished =>
        \A i \in Runs : \E k \in Runs : RunName(k) = RunName(i) /\ WroteBoth(k)

(***************************************************************************)
(* C22: a run whose transcription job was not seen COMPLETED is fatal and  *)
(* puts neither profile.json nor vector.json, also when an earlier run     *)
(* left transcripts/<base>.txt for the same base name.                     *)
(***************************************************************************)
C22_NoTranscriptOfOwnJobIsFatal ==
    \A i \in Runs :
        LastStatus(i) # "COMPLETED" =>
            /\ ~ingested[i].ok
            /\ PutOf(i, ProfileKey(RunName(i))) = {}
            /\ PutOf(i, VectorKey(RunName(i))) = {}

\* the run a step has added, and the calls it made before its j-th
Latest == ingested'[Len(ingested')]
Before(j, op) == \E k \in 1..(j - 1) : Latest.calls[k].op = op
\* a step that is a failed run keeps every profile.json and vector.json; one
\* that is a run makes its two puts after the extraction and the embedding
RunKeepsOrSavesLast ==
    Len(ingested') = Len(ingested) + 1 =>
        /\ ~Latest.ok =>
                \A n \in RecordingNames :
                    /\ Lookup(store', ProfileKey(n)) = Lookup(store, ProfileKey(n))
                    /\ Lookup(store', VectorKey(n)) = Lookup(store, VectorKey(n))
        /\ \A j \in 1..Len(Latest.calls) :
                Latest.calls[j].op = "put_object"
                    /\ Latest.calls[j].arg \in {ProfileKey(n) : n \in RecordingNames}
                                                 \cup {VectorKey(n) : n \in RecordingNames}
                    => Before(j, "converse") /\ Before(j, "invoke_model")

(***************************************************************************)
(* C23: a run that fails in the transcript resolution, the profile         *)
(* extraction or the embedding leaves profile.json and vector.json of      *)
(* every identifier as they were: the two puts come only after the         *)
(* transcript, the profile and the vector have been obtained.              *)
(***************************************************************************)
C23_FailedRunWritesNoProfile == [][RunKeepsOrSavesLast]_vars

\* a run failed for an identifier whose profile and vector an earlier run stored
C23_Witness ==
    \E i \in Runs \ {1} :
        /\ ingested[i - 1].ok /\ RunName(i - 1) = RunName(i)
        /\ ~ingested[i].ok
        /\ ingested[i].exc.type \in {"RuntimeError", "JSONDecodeError", "ClientError"}
        /\ Exists(ProfileKey(RunName(i))) /\ Exists(VectorKey(RunName(i)))

\* the transcript resolution ended with the error of an existence check
HeadErrorRaised == ~resolved.ret.ok /\ resolved.ret.exc = Exc("ClientError", "InternalError")

(***************************************************************************)
(* C24: an existence check never raises: when head_object fails with a     *)
(* backend error that is no 404, wait_for_s3_key answers False and the     *)
(* transcript resolution goes on to its next source.                       *)
(***************************************************************************)
C24_ExistenceCheckNeverRaises == resolved.done => ~HeadErrorRaised

\* step 6 loaded profile.json of the identifier: the existence check found
\* it and its body parsed
ProfileLoaded(id) ==
    /\ ProfileKey(id) \notin services.headError
    /\ Lookup(store, ProfileKey(id)).kind = "json"
IcebreakersAsked == \E j \in 1..Len(calls) : calls[j] = Call("converse", "icebreakers")

(***************************************************************************)
(* C25: in a request that gets through the enrichment, the text-generation *)
(* call for the icebreakers is made exactly when both profile.json were    *)
(* loaded, also when a loaded profile is an empty object.                  *)
(***************************************************************************)
C25_IcebreakersIffBothLoaded ==
    Served /\ Status = 200 =>
        (IcebreakersAsked <=> ProfileLoaded(IdA) /\ ProfileLoaded(IdB))

====
